---- MODULE Spec2Model ----
(***************************************************************************)
(* REIL -> SMT translator of barf (barf/core/smt/smttranslator.py) with    *)
(* the REIL operand model of barf/core/reil/reil.py.                       *)
(*                                                                         *)
(* The translator builds SMT terms and keeps SSA counters for registers    *)
(* and memory.  Terms are modelled as records, the bit-vector and array    *)
(* theory of the solver backend (smtlibv2, not part of the sources) by an  *)
(* evaluator over concrete values, and a valuation of every issued         *)
(* variable version is carried along so that "holds in every model of the  *)
(* returned assertions" is a state invariant.                              *)
(***************************************************************************)
EXTENDS Integers, Sequences, FiniteSets, TLC

\* ------------------------------------------------------------------------
\* Bounds
\* ------------------------------------------------------------------------

\* Number of calls (translate / get_curr_name / get_init_name) per run.
MaxSteps == 2

\* ------------------------------------------------------------------------
\* Configuration of the translator under analysis
\* ------------------------------------------------------------------------

\* address_size handed to SmtTranslator.__init__ (scaled down from 32).
AddressSize == 4

\* Size in bits of one memory cell / one preserved chunk of a base register.
ByteSize == 8

\* registers_size handed to set_arch_registers_size: base register -> bits.
arch_regs_size == [R \in {"R"} |-> 16]

\* reg_access_mapper handed to set_reg_access_mapper:
\* alias -> <<base register, mask, shift>>.  "Qlo" aliases a base register
\* that has no entry in arch_regs_size; "Rnib" is a 4-bit field of R.
reg_access_mapper ==
    [a \in {"Rlo", "Rhi", "Qlo", "Rnib"} |->
        CASE a = "Rlo" -> <<"R", 255, 0>>
          [] a = "Rnib" -> <<"R", 15, 0>>
          [] a = "Rhi" -> <<"R", 65280, 8>>
          [] a = "Qlo" -> <<"Q", 255, 0>>]

\* Symbolic names that can get a version counter.
Names == {"R", "Q", "q", "x", "y", "t", "p", "EMPTY"}

\* Width of the bit-vector variable behind each symbolic name.
NameSize ==
    [n \in Names |->
        CASE n = "R" -> 16
          [] n = "Q" -> 16
          [] n = "q" -> 16
          [] n = "t" -> 16
          [] n = "p" -> AddressSize
          [] OTHER   -> 8]

\* ------------------------------------------------------------------------
\* REIL operands and instructions (reil.py)
\* ------------------------------------------------------------------------

\* ReilImmediateOperand.__init__: two's complement of negative values only.
Immediate(immediate, size) ==
    [kind |-> "imm", name |-> "", size |-> size,
     immediate |-> IF immediate >= 0
                   THEN immediate
                   ELSE (IF size # 0 THEN 2^size ELSE 2^32) - (-immediate)]

\* ReilRegisterOperand.__init__
Register(name, size) ==
    [kind |-> "reg", name |-> name, size |-> size, immediate |-> 0]

\* ReilEmptyOperand.__init__: a register operand named EMPTY without size
\* (size None is modelled as 0, which is falsy like None).
Empty == [kind |-> "empty", name |-> "EMPTY", size |-> 0, immediate |-> 0]

\* isinstance(operand, ReilRegisterOperand): ReilEmptyOperand is a subclass.
IsRegisterOperand(operand) == operand.kind \in {"reg", "empty"}

\* isinstance(operand, ReilImmediateOperand)
IsImmediateOperand(operand) == operand.kind = "imm"

\* ReilMnemonic / REIL_MNEMONICS: the closed set of mnemonics
REIL_MNEMONICS ==
    {"ADD", "SUB", "MUL", "DIV", "MOD", "BSH", "AND", "OR", "XOR",
     "LDM", "STM", "STR", "BISZ", "JCC", "UNKN", "UNDEF", "NOP", "RET"}

\* ReilInstruction.__init__: no mnemonic yet (None, written "NONE") and
\* three Empty operands.
ReilInstruction == [mnemonic |-> "NONE", operands |-> <<Empty, Empty, Empty>>]

\* What a call that raised hands back: no instruction.
Raised == [mnemonic |-> "", operands |-> <<Empty, Empty, Empty>>]

\* Outcome of a setter: whether it returned, and the instruction after it.
Set(ok, ins) == [ok |-> ok, ins |-> ins]

\* The mnemonic setter assigning without looking at the value
mnemonic_setter_unchecked(ins, value) ==
    Set(TRUE, [ins EXCEPT !.mnemonic = value])

\* ReilInstruction.mnemonic (setter)
mnemonic_setter(ins, value) ==
    IF value \notin REIL_MNEMONICS
    THEN Set(FALSE, ins)
    ELSE Set(TRUE, [ins EXCEPT !.mnemonic = value])

\* ReilInstruction.operands (setter)
operands_setter(ins, value) ==
    IF Len(value) # 3
    THEN Set(FALSE, ins)
    ELSE Set(TRUE, [ins EXCEPT !.operands = value])

\* ReilInstructionBuilder.build
build(mnemonic, oprnd1, oprnd2, oprnd3) ==
    LET m == mnemonic_setter(ReilInstruction, mnemonic)
    IN  IF ~m.ok THEN Raised
        ELSE operands_setter(m.ins, <<oprnd1, oprnd2, oprnd3>>).ins

\* ReilInstructionBuilder.gen_*
gen_add(src1, src2, dst) == build("ADD", src1, src2, dst)
gen_sub(src1, src2, dst) == build("SUB", src1, src2, dst)
gen_mul(src1, src2, dst) == build("MUL", src1, src2, dst)
gen_div(src1, src2, dst) == build("DIV", src1, src2, dst)
gen_mod(src1, src2, dst) == build("MOD", src1, src2, dst)
gen_bsh(src1, src2, dst) == build("BSH", src1, src2, dst)
gen_and(src1, src2, dst) == build("AND", src1, src2, dst)
gen_or(src1, src2, dst)  == build("OR", src1, src2, dst)
gen_xor(src1, src2, dst) == build("XOR", src1, src2, dst)
gen_ldm(src, dst)  == build("LDM", src, Empty, dst)
gen_stm(src, dst)  == build("STM", src, Empty, dst)
gen_str(src, dst)  == build("STR", src, Empty, dst)
gen_bisz(src, dst) == build("BISZ", src, Empty, dst)
gen_jcc(src, dst)  == build("JCC", src, Empty, dst)
gen_unkn  == build("UNKN", Empty, Empty, Empty)
gen_undef == build("UNDEF", Empty, Empty, Empty)
gen_nop   == build("NOP", Empty, Empty, Empty)
gen_ret   == build("RET", Empty, Empty, Empty)

\* ------------------------------------------------------------------------
\* SMT terms (term constructors of the solver backend)
\* ------------------------------------------------------------------------

Term(op, size, args, name, n) ==
    [op |-> op, size |-> size, args |-> args, name |-> name, n |-> n]

\* solver.mkBitVec(size, name_version)
mkBitVec(size, var) == Term("var", size, <<>>, var.name, var.ver)

\* smtlibv2.BitVec(size, literal): a literal of the given value
BitVec(size, value) == Term("const", size, <<>>, "", value)

\* solver.mkArray(address_size, "MEM_k")
mkArray(k) == Term("array", AddressSize, <<>>, "MEM", k)

EXTRACT(s, offset, size) == Term("extract", size, <<s>>, "", offset)
ZEXTEND(x, size) == Term("zext", size, <<x>>, "", 0)
ITEBV(size, cond, t, f) == Term("ite", size, <<cond, t, f>>, "", 0)
BinOp(op, a, b) == Term(op, a.size, <<a, b>>, "", 0)
NEG(a) == Term("bvneg", a.size, <<a>>, "", 0)
EQ(a, b) == Term("eq", 0, <<a, b>>, "", 0)
GE(a, b) == Term("bvsge", 0, <<a, b>>, "", 0)
SELECT(arr, key) == Term("select", ByteSize, <<arr, key>>, "", 0)
STORE(arr, key, value) == Term("store", arr.size, <<arr, key, value>>, "", 0)

\* ------------------------------------------------------------------------
\* Semantics of the bit-vector and array theory
\* ------------------------------------------------------------------------

Bits(v, offset, size) == (v \div 2^offset) % 2^size

ToSigned(v, size) == IF v >= 2^(size - 1) THEN v - 2^size ELSE v

RECURSIVE Bitwise(_, _, _, _)
Bitwise(op, a, b, size) ==
    IF size = 0 THEN 0
    ELSE LET x == a % 2
             y == b % 2
             z == CASE op = "bvand" -> IF x = 1 /\ y = 1 THEN 1 ELSE 0
                    [] op = "bvor"  -> IF x = 1 \/ y = 1 THEN 1 ELSE 0
                    [] op = "bvxor" -> IF x # y THEN 1 ELSE 0
         IN  z + 2 * Bitwise(op, a \div 2, b \div 2, size - 1)

\* a * b modulo 2^size without leaving the 32-bit integers (size <= 16)
MulMod(a, b, size) ==
    (a * (b % 256) + ((a * (b \div 256)) % 2^size) * 256) % 2^size

ShlMod(a, b, size) ==
    IF b >= size THEN 0 ELSE (a % 2^(size - b)) * 2^b

LshrMod(a, b, size) ==
    IF b >= size THEN 0 ELSE a \div 2^b

\* env.bv[name][ver + 1] is the value of name_ver, env.mem[k + 1] the
\* contents of MEM_k.
RECURSIVE Eval(_, _)
Eval(t, env) ==
    LET a == Eval(t.args[1], env)
        b == Eval(t.args[2], env)
        c == Eval(t.args[3], env)
    IN CASE t.op = "var"     -> env.bv[t.name][t.n + 1]
         [] t.op = "const"   -> t.n
         [] t.op = "extract" -> Bits(a, t.n, t.size)
         [] t.op = "zext"    -> a
         [] t.op = "bvadd"   -> (a + b) % 2^t.size
         [] t.op = "bvsub"   -> (a - b + 2^t.size) % 2^t.size
         [] t.op = "bvmul"   -> MulMod(a, b, t.size)
         [] t.op = "bvudiv"  -> IF b = 0 THEN 2^t.size - 1 ELSE a \div b
         [] t.op = "bvurem"  -> IF b = 0 THEN a ELSE a % b
         [] t.op = "bvneg"   -> (2^t.size - a) % 2^t.size
         [] t.op = "bvshl"   -> ShlMod(a, b, t.size)
         [] t.op = "bvlshr"  -> LshrMod(a, b, t.size)
         [] t.op \in {"bvand", "bvor", "bvxor"} -> Bitwise(t.op, a, b, t.size)
         [] t.op = "ite"     -> IF a THEN b ELSE c
         [] t.op = "eq"      -> a = b
         [] t.op = "bvsge"   -> ToSigned(a, t.args[1].size)
                                    >= ToSigned(b, t.args[2].size)
         [] t.op = "bvuge"   -> a >= b
         [] t.op = "array"   -> env.mem[t.n + 1]
         [] t.op = "store"   -> [a EXCEPT ![b] = c]
         [] t.op = "select"  -> a[b]

\* ------------------------------------------------------------------------
\* Translator state
\* ------------------------------------------------------------------------

VARIABLES
    var_name_mappers,   \* symbolic name -> version counter of its namer
    mem_instance,       \* memory version counter
    mem,                \* current memory handle (an array term)
    mem_init,           \* initial memory handle (an array term)
    solver_asserts,     \* assertions held by the solver context
    last,               \* the last call: what was called, what it returned
    before,             \* the translator's fields when the last call began
    twin,               \* a second translator, constructed when this one
                        \* was constructed or last reset, given the same calls
    returned,           \* concatenation of all lists returned by translate
    env,                \* a model of everything returned so far
    steps,              \* number of calls made
    reil_operand,       \* an operand object of reil.py
    reil_instruction,   \* an instruction object of reil.py
    reil_last           \* the last call on the operand or the instruction

vars == <<var_name_mappers, mem_instance, mem, mem_init, solver_asserts,
          last, before, twin, returned, env, steps,
          reil_operand, reil_instruction, reil_last>>

\* The objects of reil.py.
reil_vars == <<reil_operand, reil_instruction, reil_last>>

\* The translator and what is recorded about it.
smt_vars == <<var_name_mappers, mem_instance, mem, mem_init, solver_asserts,
              last, before, twin, returned, env, steps>>

\* ------------------------------------------------------------------------
\* Variable namer (one counter per name)
\* ------------------------------------------------------------------------

Var(name, ver) == [name |-> name, ver |-> ver]

\* VariableNamer.get_init
get_init(name) == Var(name, 0)

\* VariableNamer.get_current
get_current(vm, name) == Var(name, vm[name])

\* SmtTranslator._register_name
register_name(vm, name) ==
    IF name \in DOMAIN vm
    THEN vm
    ELSE [n \in DOMAIN vm \cup {name} |-> IF n = name THEN 0 ELSE vm[n]]

\* VariableNamer.get_next: increment the counter
get_next(vm, name) == [vm EXCEPT ![name] = @ + 1]

\* _get_var_name taking a fresh version whatever the flag says
get_var_name_always_fresh(vm, name, fresh) ==
    LET vm1 == register_name(vm, name)
        vm2 == get_next(vm1, name)
    IN  [vm |-> vm2, var |-> get_current(vm2, name)]

\* SmtTranslator._get_var_name: the mappers after the call and the name
get_var_name(vm, name, fresh) ==
    LET vm1 == register_name(vm, name)
        vm2 == IF fresh THEN get_next(vm1, name) ELSE vm1
    IN  [vm |-> vm2, var |-> get_current(vm2, name)]

\* Current version of a name, registered or not (what get_curr_name shows).
CurrVer(vm, name) == IF name \in DOMAIN vm THEN vm[name] ELSE 0

\* ------------------------------------------------------------------------
\* Operand translation
\* ------------------------------------------------------------------------

NoTerm == Term("none", 0, <<>>, "", 0)

OprndResult(ok, vm, val, constrs, aliased) ==
    [ok |-> ok, vm |-> vm, val |-> val, constrs |-> constrs,
     aliased |-> aliased]

\* The decimal digits of v read as a binary numeral (-1: not a numeral).
RECURSIVE DecAsBin(_)
DecAsBin(v) ==
    IF v < 10
    THEN (IF v <= 1 THEN v ELSE -1)
    ELSE LET hi == DecAsBin(v \div 10)
             lo == v % 10
         IN  IF hi = -1 \/ lo > 1 THEN -1 ELSE 2 * hi + lo

\* SmtTranslator.translate_immediate_oprnd: "#x..." for sizes >= 4,
\* "#b%1d" (the decimal digits) below.
translate_immediate_oprnd(operand) ==
    IF operand.size >= 4
    THEN BitVec(operand.size, operand.immediate)
    ELSE BitVec(operand.size, DecAsBin(operand.immediate))

\* An alias source read from the initial version of its base
translate_src_register_oprnd_initial_base(operand, vm) ==
    IF operand.name \in DOMAIN reg_access_mapper
    THEN LET reg_info == reg_access_mapper[operand.name]
             g == get_var_name(vm, reg_info[1], FALSE)
         IN  IF reg_info[1] \notin DOMAIN arch_regs_size
             THEN OprndResult(FALSE, g.vm, NoTerm, <<>>, FALSE)
             ELSE OprndResult(TRUE, g.vm,
                              EXTRACT(mkBitVec(arch_regs_size[reg_info[1]],
                                               get_init(reg_info[1])),
                                      reg_info[3], operand.size),
                              <<>>, FALSE)
    ELSE LET g == get_var_name(vm, operand.name, FALSE)
         IN  OprndResult(TRUE, g.vm, mkBitVec(operand.size, g.var),
                         <<>>, FALSE)

\* SmtTranslator._translate_src_register_oprnd
translate_src_register_oprnd(operand, vm) ==
    IF operand.name \in DOMAIN reg_access_mapper
    THEN LET reg_info == reg_access_mapper[operand.name]
             var_base_name == reg_info[1]
             var_shift == reg_info[3]
             g == get_var_name(vm, var_base_name, FALSE)
         IN  IF var_base_name \notin DOMAIN arch_regs_size
             THEN OprndResult(FALSE, g.vm, NoTerm, <<>>, FALSE)
             ELSE LET var_size == arch_regs_size[var_base_name]
                      ret_val == mkBitVec(var_size, g.var)
                  IN  OprndResult(TRUE, g.vm,
                                  EXTRACT(ret_val, var_shift, operand.size),
                                  <<>>, FALSE)
    ELSE LET g == get_var_name(vm, operand.name, FALSE)
         IN  OprndResult(TRUE, g.vm, mkBitVec(operand.size, g.var),
                         <<>>, FALSE)

\* SmtTranslator._translate_src_oprnd
translate_src_oprnd(operand, vm) ==
    IF IsRegisterOperand(operand)
    THEN translate_src_register_oprnd(operand, vm)
    ELSE IF IsImmediateOperand(operand)
    THEN OprndResult(TRUE, vm, translate_immediate_oprnd(operand), <<>>, FALSE)
    ELSE OprndResult(FALSE, vm, NoTerm, <<>>, FALSE)

\* SmtTranslator.convert_to_bitvec: a register becomes the variable of
\* get_curr_name(operand.name), which registers the name.
convert_to_bitvec(operand, vm) ==
    IF IsRegisterOperand(operand)
    THEN OprndResult(TRUE, register_name(vm, operand.name),
                     mkBitVec(operand.size,
                              get_current(register_name(vm, operand.name),
                                          operand.name)),
                     <<>>, FALSE)
    ELSE IF IsImmediateOperand(operand)
    THEN OprndResult(TRUE, vm, translate_immediate_oprnd(operand), <<>>, FALSE)
    ELSE OprndResult(FALSE, vm, NoTerm, <<>>, FALSE)

\* range(0, size, 8) reversed: the offsets 8*(n-1), ..., 8, 0
ReversedRange(size) ==
    LET n == (size + ByteSize - 1) \div ByteSize
    IN  [j \in 1..n |-> ByteSize * (n - j)]

\* range(0, size, 8): the offsets 0, 8, ..., 8*(n-1)
Range(size) ==
    LET n == (size + ByteSize - 1) \div ByteSize
    IN  [j \in 1..n |-> ByteSize * (j - 1)]

\* The loop of _translate_dst_register_oprnd stopping one chunk early
ParentRegConstrs_short(ret_val_cpy, old_ret_val, var_size, var_shift, size) ==
    LET kept == SelectSeq(ReversedRange(var_size - ByteSize),
                    LAMBDA i : ~(i >= var_shift /\ i < var_shift + size))
    IN  [j \in 1..Len(kept) |->
            EQ(EXTRACT(ret_val_cpy, kept[j], ByteSize),
               EXTRACT(old_ret_val, kept[j], ByteSize))]

\* The loop of _translate_dst_register_oprnd building the constraints that
\* tie the chunks of the new base version outside the alias to the old one.
ParentRegConstrs(ret_val_cpy, old_ret_val, var_size, var_shift, size) ==
    LET kept == SelectSeq(ReversedRange(var_size),
                    LAMBDA i : ~(i >= var_shift /\ i < var_shift + size))
    IN  [j \in 1..Len(kept) |->
            EQ(EXTRACT(ret_val_cpy, kept[j], ByteSize),
               EXTRACT(old_ret_val, kept[j], ByteSize))]

\* SmtTranslator._translate_dst_register_oprnd
translate_dst_register_oprnd(operand, vm) ==
    IF operand.name \in DOMAIN reg_access_mapper
    THEN LET reg_info == reg_access_mapper[operand.name]
             var_base_name == reg_info[1]
             var_shift == reg_info[3]
             old == get_var_name(vm, var_base_name, FALSE)
             new == get_var_name(old.vm, var_base_name, TRUE)
         IN  IF var_base_name \notin DOMAIN arch_regs_size
             THEN OprndResult(FALSE, new.vm, NoTerm, <<>>, TRUE)
             ELSE LET var_size == arch_regs_size[var_base_name]
                      ret_val_cpy == mkBitVec(var_size, new.var)
                      old_ret_val == mkBitVec(var_size, old.var)
                  IN  OprndResult(TRUE, new.vm,
                          EXTRACT(ret_val_cpy, var_shift, operand.size),
                          ParentRegConstrs(ret_val_cpy, old_ret_val, var_size,
                                           var_shift, operand.size),
                          TRUE)
    ELSE LET new == get_var_name(vm, operand.name, TRUE)
         IN  OprndResult(TRUE, new.vm, mkBitVec(operand.size, new.var),
                         <<>>, FALSE)

\* SmtTranslator._translate_dst_oprnd
translate_dst_oprnd(operand, vm) ==
    IF IsRegisterOperand(operand)
    THEN translate_dst_register_oprnd(operand, vm)
    ELSE OprndResult(FALSE, vm, NoTerm, <<>>, FALSE)

\* ------------------------------------------------------------------------
\* Instruction translators
\* ------------------------------------------------------------------------

\* What a translator leaves behind: whether it returned (ok) or raised, the
\* translator fields after the call and the returned list.
Outcome(ok, vm, mi, m, rv) ==
    [ok |-> ok, vm |-> vm, mem_instance |-> mi, mem |-> m, rv |-> rv]

Raise(st, vm) == Outcome(FALSE, vm, st.mem_instance, st.mem, <<>>)
Return(st, vm, rv) == Outcome(TRUE, vm, st.mem_instance, st.mem, rv)

\* The translated operands of an instruction: whether translating them
\* raised, the mappers afterwards, the three terms and the preservation
\* constraints of the destination.
Oprnds(ok, vm, op1, op2, op3, P) ==
    [ok |-> ok, vm |-> vm, op1 |-> op1, op2 |-> op2, op3 |-> op3, P |-> P]

\* The result r of translating one operand, recorded as operand `slot` of
\* o; an operand that raised ends the translator there.
Put(o, slot, r) ==
    IF ~r.ok THEN Oprnds(FALSE, r.vm, NoTerm, NoTerm, NoTerm, <<>>)
    ELSE [o EXCEPT !.vm = r.vm, ![slot] = r.val, !.P = r.constrs]

\* The next statement of a translator translating a source operand, and the
\* one translating the destination; skipped when an earlier one raised.
Src(o, slot, oprnd) ==
    IF ~o.ok THEN o ELSE Put(o, slot, translate_src_oprnd(oprnd, o.vm))

Dst(o, slot, oprnd) ==
    IF ~o.ok THEN o ELSE Put(o, slot, translate_dst_oprnd(oprnd, o.vm))

NoOprnds(vm) == Oprnds(TRUE, vm, NoTerm, NoTerm, NoTerm, <<>>)

\* The three operands translated destination first
SrcSrcDst_dst_first(oprnd1, oprnd2, oprnd3, vm) ==
    Src(Src(Dst(NoOprnds(vm), "op3", oprnd3), "op1", oprnd1), "op2", oprnd2)

\* op1_var = src(oprnd1); op2_var = src(oprnd2); op3_var, _ = dst(oprnd3),
\* in this order, stopping at the first operand that raises.
SrcSrcDst(oprnd1, oprnd2, oprnd3, vm) ==
    Dst(Src(Src(NoOprnds(vm), "op1", oprnd1), "op2", oprnd2), "op3", oprnd3)

\* op1_var = src(oprnd1); op3_var, parent_reg_constrs = dst(oprnd3)
SrcDst(oprnd1, oprnd3, vm) ==
    Dst(Src(NoOprnds(vm), "op1", oprnd1), "op3", oprnd3)

\* op1_var = src(oprnd1); where = src(oprnd3)
SrcSrc(oprnd1, oprnd3, vm) ==
    Src(Src(NoOprnds(vm), "op1", oprnd1), "op3", oprnd3)

\* End of a translator: the exception of an operand goes to the caller,
\* otherwise the list rv built from the translated operands is returned.
Returning(st, o, rv) ==
    IF ~o.ok THEN Raise(st, o.vm) ELSE Return(st, o.vm, rv)

\* ArithExpr zero-extending the M-bit result instead of the sources
ArithExpr_zx_result(op, o, oprnd1, oprnd3) ==
    IF oprnd3.size > oprnd1.size
    THEN EQ(o.op3, ZEXTEND(BinOp(op, o.op1, o.op2), oprnd3.size))
    ELSE IF oprnd3.size < oprnd1.size
    THEN EQ(o.op3, EXTRACT(BinOp(op, o.op1, o.op2), 0, oprnd3.size))
    ELSE EQ(o.op3, BinOp(op, o.op1, o.op2))

\* The three branches shared by _translate_add/_sub/_mul: zero-extend the
\* sources, truncate the result, or neither.
ArithExpr(op, o, oprnd1, oprnd3) ==
    IF oprnd3.size > oprnd1.size
    THEN EQ(o.op3, BinOp(op, ZEXTEND(o.op1, oprnd3.size),
                             ZEXTEND(o.op2, oprnd3.size)))
    ELSE IF oprnd3.size < oprnd1.size
    THEN EQ(o.op3, EXTRACT(BinOp(op, o.op1, o.op2), 0, oprnd3.size))
    ELSE EQ(o.op3, BinOp(op, o.op1, o.op2))

\* The three branches shared by _translate_and/_or/_xor: zero-extend the
\* result, truncate the result, or neither.
BitwiseExpr(op, o, oprnd1, oprnd3) ==
    IF oprnd1.size < oprnd3.size
    THEN EQ(o.op3, ZEXTEND(BinOp(op, o.op1, o.op2), oprnd3.size))
    ELSE IF oprnd1.size > oprnd3.size
    THEN EQ(o.op3, EXTRACT(BinOp(op, o.op1, o.op2), 0, oprnd3.size))
    ELSE EQ(o.op3, BinOp(op, o.op1, o.op2))

\* assert oprnd1.size and oprnd2.size and oprnd3.size
\* assert oprnd1.size == oprnd2.size
Asserts3(oprnd1, oprnd2, oprnd3) ==
    /\ oprnd1.size # 0 /\ oprnd2.size # 0 /\ oprnd3.size # 0
    /\ oprnd1.size = oprnd2.size

\* SmtTranslator._translate_add, _translate_sub, _translate_mul
translate_arith(op, oprnd1, oprnd2, oprnd3, st) ==
    IF ~Asserts3(oprnd1, oprnd2, oprnd3) THEN Raise(st, st.vm)
    ELSE LET o == SrcSrcDst(oprnd1, oprnd2, oprnd3, st.vm)
         IN  Returning(st, o, <<ArithExpr(op, o, oprnd1, oprnd3)>>)

translate_add(oprnd1, oprnd2, oprnd3, st) ==
    translate_arith("bvadd", oprnd1, oprnd2, oprnd3, st)

translate_sub(oprnd1, oprnd2, oprnd3, st) ==
    translate_arith("bvsub", oprnd1, oprnd2, oprnd3, st)

translate_mul(oprnd1, oprnd2, oprnd3, st) ==
    translate_arith("bvmul", oprnd1, oprnd2, oprnd3, st)

\* expr = (op1_var / op2_var == op3_var), likewise with %
DivModExpr(op, o) == EQ(o.op3, BinOp(op, o.op1, o.op2))

\* SmtTranslator._translate_div, _translate_mod
translate_divmod(op, oprnd1, oprnd2, oprnd3, st) ==
    IF ~(Asserts3(oprnd1, oprnd2, oprnd3) /\ oprnd2.size = oprnd3.size)
    THEN Raise(st, st.vm)
    ELSE LET o == SrcSrcDst(oprnd1, oprnd2, oprnd3, st.vm)
         IN  Returning(st, o, <<DivModExpr(op, o)>>)

\* _translate_div returning the remainder
translate_div_remainder(oprnd1, oprnd2, oprnd3, st) ==
    translate_divmod("bvurem", oprnd1, oprnd2, oprnd3, st)

translate_div(oprnd1, oprnd2, oprnd3, st) ==
    translate_divmod("bvudiv", oprnd1, oprnd2, oprnd3, st)

translate_mod(oprnd1, oprnd2, oprnd3, st) ==
    translate_divmod("bvurem", oprnd1, oprnd2, oprnd3, st)

\* The expression of _translate_bsh testing the sign of the amount with an
\* unsigned compare
BshExpr_unsigned(o, oprnd3) ==
    LET shl == EXTRACT(BinOp("bvlshr", o.op1, NEG(o.op2)), 0, o.op3.size)
        shr == EXTRACT(BinOp("bvshl", o.op1, o.op2), 0, o.op3.size)
    IN  EQ(o.op3, ITEBV(oprnd3.size,
                        Term("bvuge", 0, <<o.op2, BitVec(o.op2.size, 0)>>,
                             "", 0),
                        shr, shl))

\* shl = EXTRACT(op1_var >> (-op2_var), 0, op3_var.size)
\* shr = EXTRACT(op1_var << op2_var, 0, op3_var.size)
\* expr = (op3_var == ITEBV(oprnd3.size, op2_var >= 0, shr, shl))
BshExpr(o, oprnd3) ==
    LET shl == EXTRACT(BinOp("bvlshr", o.op1, NEG(o.op2)), 0, o.op3.size)
        shr == EXTRACT(BinOp("bvshl", o.op1, o.op2), 0, o.op3.size)
    IN  EQ(o.op3, ITEBV(oprnd3.size, GE(o.op2, BitVec(o.op2.size, 0)),
                        shr, shl))

\* SmtTranslator._translate_bsh
translate_bsh(oprnd1, oprnd2, oprnd3, st) ==
    IF ~Asserts3(oprnd1, oprnd2, oprnd3) THEN Raise(st, st.vm)
    ELSE LET o == SrcSrcDst(oprnd1, oprnd2, oprnd3, st.vm)
         IN  Returning(st, o, <<BshExpr(o, oprnd3)>>)

\* SmtTranslator._translate_and, _translate_or, _translate_xor
translate_bitwise(op, oprnd1, oprnd2, oprnd3, st) ==
    IF ~Asserts3(oprnd1, oprnd2, oprnd3) THEN Raise(st, st.vm)
    ELSE LET o == SrcSrcDst(oprnd1, oprnd2, oprnd3, st.vm)
         IN  Returning(st, o, <<BitwiseExpr(op, o, oprnd1, oprnd3)>>)

translate_and(oprnd1, oprnd2, oprnd3, st) ==
    translate_bitwise("bvand", oprnd1, oprnd2, oprnd3, st)

translate_or(oprnd1, oprnd2, oprnd3, st) ==
    translate_bitwise("bvor", oprnd1, oprnd2, oprnd3, st)

translate_xor(oprnd1, oprnd2, oprnd3, st) ==
    translate_bitwise("bvxor", oprnd1, oprnd2, oprnd3, st)

\* where + i: the bit offset used as byte index
AddrPlus_bits(where, i) == BinOp("bvadd", where, BitVec(where.size, i))

\* where + i/8
AddrPlus(where, i) ==
    BinOp("bvadd", where, BitVec(where.size, i \div ByteSize))

\* The loop of _translate_ldm: one equality per byte of the destination,
\* self._mem[where + i/8] == EXTRACT(op3_var, i, 8), highest offset first.
LdmExprs(o, oprnd3, m) ==
    LET offs == ReversedRange(oprnd3.size)
    IN  [j \in 1..Len(offs) |->
            EQ(SELECT(m, AddrPlus(o.op1, offs[j])),
               EXTRACT(o.op3, offs[j], ByteSize))]

\* _translate_ldm opening a new memory version as a store does
translate_ldm_versions_memory(oprnd1, oprnd2, oprnd3, st) ==
    IF ~(oprnd1.size = AddressSize /\ oprnd3.size # 0) THEN Raise(st, st.vm)
    ELSE LET o == SrcDst(oprnd1, oprnd3, st.vm)
         IN  IF ~o.ok THEN Raise(st, o.vm)
             ELSE Outcome(TRUE, o.vm, st.mem_instance + 1,
                          mkArray(st.mem_instance + 1),
                          LdmExprs(o, oprnd3, st.mem))

\* SmtTranslator._translate_ldm
translate_ldm(oprnd1, oprnd2, oprnd3, st) ==
    IF ~(oprnd1.size = AddressSize /\ oprnd3.size # 0) THEN Raise(st, st.vm)
    ELSE LET o == SrcDst(oprnd1, oprnd3, st.vm)
         IN  Returning(st, o, LdmExprs(o, oprnd3, st.mem))

\* The loop of _translate_stm storing the bytes most significant first
RECURSIVE StoreBytes_bigendian(_, _, _, _)
StoreBytes_bigendian(m, where, op1_var, n) ==
    IF n = 0 THEN m
    ELSE LET i == ByteSize * (n - 1)
         IN  STORE(StoreBytes_bigendian(m, where, op1_var, n - 1),
                   AddrPlus(where, i),
                   EXTRACT(op1_var, op1_var.size - ByteSize - i, ByteSize))

\* The loop of _translate_stm: self._mem[where + i/8] = EXTRACT(op1_var, i, 8)
\* for the first n offsets of range(0, size, 8).
RECURSIVE StoreBytes(_, _, _, _)
StoreBytes(m, where, op1_var, n) ==
    IF n = 0 THEN m
    ELSE LET i == ByteSize * (n - 1)
         IN  STORE(StoreBytes(m, where, op1_var, n - 1),
                   AddrPlus(where, i), EXTRACT(op1_var, i, ByteSize))

\* The tail of _translate_stm once both operands are translated: the store
\* chain on the old handle, a new memory version, and their equality.
StmOutcome(st, o, oprnd1) ==
    IF ~o.ok THEN Raise(st, o.vm)
    ELSE LET mem_old == StoreBytes(st.mem, o.op3, o.op1,
                                   Len(Range(oprnd1.size)))
             mem_new == mkArray(st.mem_instance + 1)
         IN  Outcome(TRUE, o.vm, st.mem_instance + 1, mem_new,
                     <<EQ(mem_new, mem_old)>>)

\* SmtTranslator._translate_stm
translate_stm(oprnd1, oprnd2, oprnd3, st) ==
    IF ~(oprnd1.size # 0 /\ oprnd3.size # 0 /\ oprnd3.size = AddressSize)
    THEN Raise(st, st.vm)
    ELSE StmOutcome(st, SrcSrc(oprnd1, oprnd3, st.vm), oprnd1)

\* The list of _translate_str without the zero-padding constraint
StrExprs_nopad(o, oprnd1, oprnd3) ==
    LET expr == IF oprnd1.size = oprnd3.size
                THEN EQ(o.op1, o.op3)
                ELSE IF oprnd1.size < oprnd3.size
                THEN EQ(o.op1, EXTRACT(o.op3, 0, o.op1.size))
                ELSE EQ(EXTRACT(o.op1, 0, o.op3.size), o.op3)
    IN  <<expr>> \o o.P

\* The list of _translate_str: [expr] + constrs + parent_reg_constrs
StrExprs(o, oprnd1, oprnd3) ==
    LET expr == IF oprnd1.size = oprnd3.size
                THEN EQ(o.op1, o.op3)
                ELSE IF oprnd1.size < oprnd3.size
                THEN EQ(o.op1, EXTRACT(o.op3, 0, o.op1.size))
                ELSE EQ(EXTRACT(o.op1, 0, o.op3.size), o.op3)
        constrs == IF oprnd1.size < oprnd3.size
                   THEN <<EQ(BitVec(o.op3.size - o.op1.size, 0),
                             EXTRACT(o.op3, o.op1.size,
                                     o.op3.size - o.op1.size))>>
                   ELSE <<>>
    IN  <<expr>> \o constrs \o o.P

\* SmtTranslator._translate_str
translate_str(oprnd1, oprnd2, oprnd3, st) ==
    IF ~(oprnd1.size # 0 /\ oprnd3.size # 0) THEN Raise(st, st.vm)
    ELSE LET o == SrcDst(oprnd1, oprnd3, st.vm)
         IN  Returning(st, o, StrExprs(o, oprnd1, oprnd3))

\* ite = ITEBV(oprnd3.size, op1_var == 0x0, 0x1, 0x0); expr = (op3_var == ite)
BiszExpr(o, oprnd3) ==
    EQ(o.op3, ITEBV(oprnd3.size, EQ(o.op1, BitVec(o.op1.size, 0)),
                    BitVec(oprnd3.size, 1), BitVec(oprnd3.size, 0)))

\* SmtTranslator._translate_bisz
translate_bisz(oprnd1, oprnd2, oprnd3, st) ==
    IF ~(oprnd1.size # 0 /\ oprnd3.size # 0) THEN Raise(st, st.vm)
    ELSE LET o == SrcDst(oprnd1, oprnd3, st.vm)
         IN  Returning(st, o, <<BiszExpr(o, oprnd3)>>)

\* SmtTranslator._translate_jcc, _translate_undef, _translate_nop,
\* _translate_ret
\* _translate_jcc translating its target as a destination
translate_jcc_writing_target(oprnd1, oprnd2, oprnd3, st) ==
    Returning(st, SrcDst(oprnd1, oprnd3, st.vm), <<>>)

translate_jcc(oprnd1, oprnd2, oprnd3, st) == Return(st, st.vm, <<>>)
translate_undef(oprnd1, oprnd2, oprnd3, st) == Return(st, st.vm, <<>>)
translate_nop(oprnd1, oprnd2, oprnd3, st) == Return(st, st.vm, <<>>)
translate_ret(oprnd1, oprnd2, oprnd3, st) == Return(st, st.vm, <<>>)

\* _translate_unkn returning no assertions as _translate_undef does
translate_unkn_silent(oprnd1, oprnd2, oprnd3, st) == Return(st, st.vm, <<>>)

\* SmtTranslator._translate_unkn
translate_unkn(oprnd1, oprnd2, oprnd3, st) == Raise(st, st.vm)

\* SmtTranslator.translate: dispatch on the mnemonic through
\* _instr_translators; a mnemonic without entry raises; every exception is
\* re-raised to the caller.
translate(instr, st) ==
    LET m  == instr.mnemonic
        o1 == instr.operands[1]
        o2 == instr.operands[2]
        o3 == instr.operands[3]
    IN  CASE m = "ADD"   -> translate_add(o1, o2, o3, st)
          [] m = "SUB"   -> translate_sub(o1, o2, o3, st)
          [] m = "MUL"   -> translate_mul(o1, o2, o3, st)
          [] m = "DIV"   -> translate_div(o1, o2, o3, st)
          [] m = "MOD"   -> translate_mod(o1, o2, o3, st)
          [] m = "BSH"   -> translate_bsh(o1, o2, o3, st)
          [] m = "AND"   -> translate_and(o1, o2, o3, st)
          [] m = "OR"    -> translate_or(o1, o2, o3, st)
          [] m = "XOR"   -> translate_xor(o1, o2, o3, st)
          [] m = "LDM"   -> translate_ldm(o1, o2, o3, st)
          [] m = "STM"   -> translate_stm(o1, o2, o3, st)
          [] m = "STR"   -> translate_str(o1, o2, o3, st)
          [] m = "BISZ"  -> translate_bisz(o1, o2, o3, st)
          [] m = "JCC"   -> translate_jcc(o1, o2, o3, st)
          [] m = "UNDEF" -> translate_undef(o1, o2, o3, st)
          [] m = "UNKN"  -> translate_unkn(o1, o2, o3, st)
          [] m = "NOP"   -> translate_nop(o1, o2, o3, st)
          [] m = "RET"   -> translate_ret(o1, o2, o3, st)
          [] OTHER       -> Raise(st, st.vm)

\* The translator's fields: the solver context (asserts), the name
\* counters, the memory version and the two memory handles.
Fields(asserts, vm, mi, m, m_init) ==
    [solver_asserts |-> asserts, vm |-> vm, mem_instance |-> mi, mem |-> m,
     mem_init |-> m_init]

\* What translate reads of the translator's fields f.
StateOf(f) == [vm |-> f.vm, mem_instance |-> f.mem_instance, mem |-> f.mem]

\* The fields of a translator that was just constructed.
Fresh == Fields(<<>>, <<>>, 0, mkArray(0), mkArray(0))

\* reset keeping the memory version and handle
reset_keeping_memory(f) == Fields(<<>>, <<>>, f.mem_instance, f.mem, mkArray(0))

\* reset forgetting to clear the name counters
reset_keeping_names(f) ==
    Fields(<<>>, f.vm, 0, mkArray(0), mkArray(0))

\* SmtTranslator.reset: the solver is reset, the memory handles are made
\* anew under the name MEM_0 and the name counters are dropped.
reset(f) ==
    Fields(<<>>, <<>>, 0, mkArray(0), mkArray(0))

\* ------------------------------------------------------------------------
\* Models of the returned assertions
\* ------------------------------------------------------------------------

\* Every EXTRACT inside t takes bits that its argument has.
RECURSIVE WellSorted(_)
WellSorted(t) ==
    /\ t.op = "extract" => t.n + t.size <= t.args[1].size
    /\ \A i \in 1..Len(t.args) : WellSorted(t.args[i])

\* The outcome with the assertions that the solver can take: an assertion
\* that is not well sorted constrains nothing.
Usable(out) == [out EXCEPT !.rv = SelectSeq(out.rv, WellSorted)]

Sat(asserts, e) == \A i \in 1..Len(asserts) : Eval(asserts[i], e) = TRUE

RECURSIVE Mentions(_, _)
Mentions(t, v) ==
    \/ t.op = "var" /\ t.name = v.name /\ t.n = v.ver
    \/ \E i \in 1..Len(t.args) : Mentions(t.args[i], v)

\* <<offset, width>> when t is the variable v or a (nested) EXTRACT of it.
RECURSIVE SliceOf(_, _)
SliceOf(t, v) ==
    IF t.op = "var"
    THEN (IF t.name = v.name /\ t.n = v.ver THEN <<0, t.size>> ELSE <<>>)
    ELSE IF t.op = "extract"
    THEN LET s == SliceOf(t.args[1], v)
         IN  IF s = <<>> THEN <<>> ELSE <<s[1] + t.n, t.size>>
    ELSE <<>>

\* The slices of v that an equality of the list fixes to a value.
Pins(asserts, v, e) ==
    LET PinAt(i, l, r) ==
            LET sl == SliceOf(asserts[i].args[l], v)
            IN  [off |-> sl[1], w |-> sl[2],
                 val |-> Eval(asserts[i].args[r], e)]
        Fixes(i, l, r) ==
            /\ asserts[i].op = "eq"
            /\ SliceOf(asserts[i].args[l], v) # <<>>
            /\ ~Mentions(asserts[i].args[r], v)
    IN  {PinAt(i, 1, 2) : i \in {j \in 1..Len(asserts) : Fixes(j, 1, 2)}}
        \cup
        {PinAt(i, 2, 1) : i \in {j \in 1..Len(asserts) : Fixes(j, 2, 1)}}

\* The value whose fixed bits are as pinned and whose free bits are fill.
RECURSIVE Candidate(_, _, _, _)
Candidate(pins, fill, k, size) ==
    IF k = size THEN 0
    ELSE LET covering == {q \in pins : q.off <= k /\ k < q.off + q.w}
             bit == IF covering = {} THEN fill
                    ELSE Bits((CHOOSE q \in covering : TRUE).val,
                              k - (CHOOSE q \in covering : TRUE).off, 1)
         IN  bit + 2 * Candidate(pins, fill, k + 1, size)

Addresses == 0..(2^AddressSize - 1)

\* The models extending e to the versions that the call created: every bit
\* of the newest version of a name that the assertions fix takes the fixed
\* value, every free bit is sampled as 0 and as 1 (also the memory cells
\* when no assertion fixes the new memory), and only valuations satisfying
\* the whole list are kept.
ModelsFilled(e, vm, mi, out, f) ==
    LET adv == {n \in Names : CurrVer(out.vm, n) > CurrVer(vm, n)}
        \* every created version filled with the sample bit
        padded ==
            IF adv = {} THEN e
            ELSE [e EXCEPT !.bv =
                    [n \in Names |->
                        e.bv[n] \o
                        [j \in 1..(CurrVer(out.vm, n) - CurrVer(vm, n))
                            |-> f * (2^NameSize[n] - 1)]]]
        Newest(n) ==
            Candidate(Pins(out.rv, Var(n, CurrVer(out.vm, n)), padded),
                      f, 0, NameSize[n])
        regs ==
            IF adv = {} THEN e
            ELSE [e EXCEPT !.bv =
                    [n \in Names |->
                        IF n \in adv
                        THEN [padded.bv[n] EXCEPT ![CurrVer(out.vm, n) + 1]
                                                      = Newest(n)]
                        ELSE e.bv[n]]]
        new == mkArray(out.mem_instance)
        fixed == {Eval(out.rv[i].args[2], regs) :
                    i \in {j \in 1..Len(out.rv) :
                             /\ out.rv[j].op = "eq"
                             /\ out.rv[j].args[1] = new}}
        mems ==
            IF out.mem_instance = mi THEN {regs.mem}
            ELSE IF fixed # {} THEN {Append(regs.mem, c) : c \in fixed}
            ELSE {Append(regs.mem, [a \in Addresses |-> f * (2^ByteSize - 1)])}
    IN  {e2 \in {[regs EXCEPT !.mem = c] : c \in mems} : Sat(out.rv, e2)}

Models(e, vm, mi, out) ==
    IF out.rv = <<>> /\ out.vm = vm /\ out.mem_instance = mi
    THEN {e}
    ELSE ModelsFilled(e, vm, mi, Usable(out), 0)
         \cup ModelsFilled(e, vm, mi, Usable(out), 1)

\* ------------------------------------------------------------------------
\* Inputs
\* ------------------------------------------------------------------------

R   == Register("R", 16)
Rlo == Register("Rlo", 8)
Rhi == Register("Rhi", 8)
Qlo == Register("Qlo", 8)
Rnib == Register("Rnib", 4)
x   == Register("x", 8)
y   == Register("y", 8)
t   == Register("t", 16)
p   == Register("p", AddressSize)
qreg == Register("q", 16)

AddInstrs ==
    {build("ADD", o[1], o[2], o[3]) : o \in
        {<<x, y, t>>, <<Immediate(3, 8), Immediate(5, 8), t>>,
         <<t, R, x>>, <<x, y, Rlo>>, <<x, Immediate(1, 8), Qlo>>,
         <<x, t, y>>, <<x, y, Immediate(0, 8)>>,
         <<Rlo, Immediate(1, 8), Rhi>>}}

SubInstrs ==
    {build("SUB", o[1], o[2], o[3]) : o \in
        {<<x, y, t>>, <<x, y, x>>, <<x, y, Rhi>>}}

MulInstrs ==
    {build("MUL", o[1], o[2], o[3]) : o \in
        {<<x, y, t>>, <<t, R, x>>, <<y, y, Rlo>>}}

DivInstrs ==
    {build("DIV", Immediate(20, 8), Immediate(3, 8), x),
     build("DIV", Immediate(20, 16), Immediate(3, 16), qreg)}

ModInstrs ==
    {build("MOD", Immediate(20, 8), Immediate(3, 8), x),
     build("MOD", Immediate(20, 16), Immediate(3, 16), qreg)}

BshInstrs ==
    {build("BSH", o[1], o[2], o[3]) : o \in
        {<<x, Immediate(2, 8), y>>, <<x, Immediate(-1, 8), y>>,
         <<y, x, y>>, <<R, Immediate(-9, 16), x>>,
         <<x, Immediate(2, 8), t>>}}

AndInstrs ==
    {build("AND", o[1], o[2], o[3]) : o \in
        {<<x, y, t>>, <<t, R, x>>, <<x, y, y>>}}

OrInstrs ==
    {build("OR", o[1], o[2], o[3]) : o \in {<<x, y, t>>, <<t, R, x>>}}

XorInstrs ==
    {build("XOR", o[1], o[2], o[3]) : o \in {<<x, y, t>>, <<x, y, y>>}}

LdmInstrs ==
    {build("LDM", o[1], Empty, o[2]) : o \in
        {<<p, t>>, <<Immediate(15, AddressSize), t>>, <<p, Rhi>>, <<x, t>>}}

StmInstrs ==
    {build("STM", o[1], Empty, o[2]) : o \in
        {<<x, p>>, <<t, p>>, <<R, Immediate(15, AddressSize)>>, <<t, x>>}}

StrInstrs ==
    {build("STR", o[1], Empty, o[2]) : o \in
        {<<Immediate(239, 8), Rlo>>, <<x, Rhi>>, <<t, Rlo>>, <<p, Rhi>>,
         <<x, t>>, <<t, x>>, <<x, y>>, <<x, Qlo>>, <<x, Immediate(0, 8)>>,
         <<Immediate(5, 4), Rnib>>}}

BiszInstrs == {build("BISZ", x, Empty, y)}

JccInstrs == {build("JCC", x, Empty, p), build("JCC", x, Empty, Qlo)}

OtherInstrs ==
    {build(m, Empty, Empty, Empty) : m \in {"UNDEF", "NOP", "RET", "UNKN"}}

\* NOP, UNDEF and RET given operands all the same.
OperandInstrs ==
    {build("NOP", x, y, t), build("UNDEF", Empty, Empty, Rlo),
     build("RET", Immediate(1, 8), Empty, t)}

\* A ReilInstruction whose mnemonic was never set (None): no translator.
NoMnemonicInstrs == {ReilInstruction}

\* The instructions handed to translate.
Instrs ==
    AddInstrs \cup SubInstrs \cup MulInstrs \cup DivInstrs \cup ModInstrs
    \cup BshInstrs \cup AndInstrs \cup OrInstrs \cup XorInstrs
    \cup LdmInstrs \cup StmInstrs \cup StrInstrs \cup BiszInstrs
    \cup JccInstrs \cup OtherInstrs \cup OperandInstrs \cup NoMnemonicInstrs

\* No instruction (calls other than translate).
NoInstr == build("", Empty, Empty, Empty)

\* Values of the version-0 variables and contents of MEM_0.
InitEnvs ==
    {[bv  |-> [n \in Names |->
                 CASE n = "R" -> <<42330>>
                   [] n = "t" -> <<57005>>
                   [] n = "x" -> <<3>>
                   [] n = "y" -> <<255>>
                   [] n = "p" -> <<15>>
                   [] OTHER   -> <<0>>],
      mem |-> <<[a \in Addresses |-> 16 * a + 1]>>],
     [bv  |-> [n \in Names |->
                 CASE n = "R" -> <<255>>
                   [] n = "t" -> <<32769>>
                   [] n = "x" -> <<128>>
                   [] n = "y" -> <<2>>
                   [] n = "p" -> <<6>>
                   [] OTHER   -> <<0>>],
      mem |-> <<[a \in Addresses |-> 255 - a]>>]}

\* ------------------------------------------------------------------------
\* Behaviour
\* ------------------------------------------------------------------------

Call(call, instr, ok, rv, result) ==
    [call |-> call, instr |-> instr, ok |-> ok, rv |-> rv, result |-> result]

\* The second translator after a call that left it the fields st and
\* returned rv (ok) or raised.
Twin(st, ok, rv) ==
    [vm |-> st.vm, mem_instance |-> st.mem_instance, mem |-> st.mem,
     ok |-> ok, rv |-> rv]

\* A call on an operand or an instruction: what was called, whether it
\* returned, and its arguments (those it has).
ReilCall(call, ok, value, size, mnemonic, oprnds) ==
    [call |-> call, ok |-> ok, value |-> value, size |-> size,
     mnemonic |-> mnemonic, oprnds |-> oprnds]

\* The translator's fields in the current state.
Now == Fields(solver_asserts, var_name_mappers, mem_instance, mem, mem_init)

\* SmtTranslator.__init__ followed by set_reg_access_mapper and
\* set_arch_registers_size
Init ==
    /\ var_name_mappers = <<>>
    /\ mem_instance = 0
    /\ mem = mkArray(0)
    /\ mem_init = mkArray(0)
    /\ solver_asserts = <<>>
    /\ last = Call("init", NoInstr, TRUE, <<>>, Var("", 0))
    /\ before = Fields(<<>>, <<>>, 0, mkArray(0), mkArray(0))
    /\ twin = Twin(Fresh, TRUE, <<>>)
    /\ returned = <<>>
    /\ env \in InitEnvs
    /\ steps = 0
    /\ reil_operand = Empty
    /\ reil_instruction = ReilInstruction
    /\ reil_last = ReilCall("init", TRUE, 0, 0, "", <<>>)

\* The run is cut after MaxSteps calls.
CanCall == steps < MaxSteps

\* A call of translate(instr): the translator's fields are left as the
\* dispatched translator left them, whether it returned or raised.
Translate(instr) ==
    /\ CanCall
    /\ \E out \in {translate(instr, [vm |-> var_name_mappers,
                                        mem_instance |-> mem_instance,
                                        mem |-> mem])} :
           /\ var_name_mappers' = out.vm
           /\ mem_instance' = out.mem_instance
           /\ mem' = out.mem
           /\ last' = Call("translate", instr, out.ok, out.rv, Var("", 0))
           /\ returned' = returned \o out.rv
           /\ env' \in Models(env, var_name_mappers, mem_instance, out)
    /\ \E out \in {translate(instr, StateOf(twin))} :
           twin' = Twin(out, out.ok, out.rv)
    /\ before' = Now
    /\ steps' = steps + 1
    /\ UNCHANGED reil_vars
    /\ UNCHANGED <<mem_init, solver_asserts>>

\* SmtTranslator.get_curr_name
GetCurrName ==
    \E name \in {"R", "Rlo"} :
        /\ CanCall
        /\ var_name_mappers' = register_name(var_name_mappers, name)
        /\ last' = Call("get_curr_name", NoInstr, TRUE, <<>>,
                        get_current(var_name_mappers', name))
        /\ twin' = [Twin(twin, TRUE, <<>>) EXCEPT
                        !.vm = register_name(twin.vm, name)]
        /\ before' = Now
        /\ steps' = steps + 1
        /\ UNCHANGED reil_vars
        /\ UNCHANGED <<mem_instance, mem, mem_init, solver_asserts,
                       returned, env>>

\* SmtTranslator.get_init_name
GetInitName ==
    \E name \in {"R", "Rlo"} :
        /\ CanCall
        /\ var_name_mappers' = register_name(var_name_mappers, name)
        /\ last' = Call("get_init_name", NoInstr, TRUE, <<>>, get_init(name))
        /\ twin' = [Twin(twin, TRUE, <<>>) EXCEPT
                        !.vm = register_name(twin.vm, name)]
        /\ before' = Now
        /\ steps' = steps + 1
        /\ UNCHANGED reil_vars
        /\ UNCHANGED <<mem_instance, mem, mem_init, solver_asserts,
                       returned, env>>

\* SmtTranslator.get_memory
GetMemory ==
    /\ CanCall
    /\ last' = Call("get_memory", NoInstr, TRUE, <<>>, Var(mem.name, mem.n))
    /\ twin' = Twin(twin, TRUE, <<>>)
    /\ before' = Now
    /\ steps' = steps + 1
    /\ UNCHANGED reil_vars
    /\ UNCHANGED <<var_name_mappers, mem_instance, mem, mem_init,
                   solver_asserts, returned, env>>

\* SmtTranslator.get_memory_init
GetMemoryInit ==
    /\ CanCall
    /\ last' = Call("get_memory_init", NoInstr, TRUE, <<>>,
                    Var(mem_init.name, mem_init.n))
    /\ twin' = Twin(twin, TRUE, <<>>)
    /\ before' = Now
    /\ steps' = steps + 1
    /\ UNCHANGED reil_vars
    /\ UNCHANGED <<var_name_mappers, mem_instance, mem, mem_init,
                   solver_asserts, returned, env>>

\* The operand alone, as the argument of a call that takes an operand.
OperandOnly(operand) ==
    [mnemonic |-> "", operands |-> <<operand, Empty, Empty>>]

\* SmtTranslator.convert_to_bitvec; the term returned is kept as the one
\* element of the list of the call.
ConvertToBitvec ==
    \E operand \in {R, Rlo, x, Immediate(5, 8)} :
        /\ CanCall
        /\ \E r \in {convert_to_bitvec(operand, var_name_mappers)} :
               /\ var_name_mappers' = r.vm
               /\ last' = Call("convert_to_bitvec", OperandOnly(operand),
                               r.ok, <<r.val>>, Var("", 0))
        /\ \E r \in {convert_to_bitvec(operand, twin.vm)} :
               twin' = [Twin(twin, r.ok, <<r.val>>) EXCEPT !.vm = r.vm]
        /\ before' = Now
        /\ steps' = steps + 1
        /\ UNCHANGED reil_vars
        /\ UNCHANGED <<mem_instance, mem, mem_init, solver_asserts,
                       returned, env>>

\* The valuation e cut back to the version-0 variables and to MEM_0.
Version0(e) ==
    [bv  |-> [n \in DOMAIN e.bv |-> <<e.bv[n][1]>>],
     mem |-> <<e.mem[1]>>]

\* SmtTranslator.reset.  Nothing returned before the reset constrains the
\* variables issued after it.
Reset ==
    /\ CanCall
    /\ \E f \in {reset(Now)} :
           /\ solver_asserts' = f.solver_asserts
           /\ var_name_mappers' = f.vm
           /\ mem_instance' = f.mem_instance
           /\ mem' = f.mem
           /\ mem_init' = f.mem_init
    /\ last' = Call("reset", NoInstr, TRUE, <<>>, Var("", 0))
    /\ twin' = Twin(Fresh, TRUE, <<>>)
    /\ before' = Now
    /\ returned' = <<>>
    /\ env' = Version0(env)
    /\ steps' = steps + 1
    /\ UNCHANGED reil_vars

Next ==
    \/ \E instr \in Instrs : Translate(instr)
    \/ GetCurrName
    \/ GetInitName
    \/ GetMemory
    \/ GetMemoryInit
    \/ Reset
    \/ ConvertToBitvec

Spec == Init /\ [][Next]_vars

\* ------------------------------------------------------------------------
\* Behaviour of the operand and instruction objects
\* ------------------------------------------------------------------------

\* Values and sizes given to the operand constructors and setters (size 0:
\* the size is left out, None).
ImmValues == {-300, -1, 5, 256}
Sizes == {0, 8}

\* Operands given to the builder and lists given to the operands setter.
Triples ==
    {<<Register("t0", 8), Immediate(1, 8), Register("eax", 16)>>,
     <<Immediate(1, 8), Immediate(1, 8), Register("t0", 8)>>}
Pairs ==
    {<<Immediate(1, 8), Register("t0", 8)>>,
     <<Register("eax", 16), Register("eax", 16)>>}
OperandLists ==
    {<<>>, <<Register("t0", 8), Empty>>,
     <<Immediate(1, 8), Empty, Register("t0", 8)>>,
     <<Empty, Empty, Empty, Empty>>}

\* ReilImmediateOperand(v, s); a negative value is given with a size (without
\* one it wraps at 2^32).
NewImmediate ==
    \E v \in ImmValues, s \in Sizes :
        /\ s # 0 \/ v >= 0
        /\ reil_operand' = Immediate(v, s)
        /\ reil_last' = ReilCall("Immediate", TRUE, v, s, "", <<>>)
        /\ UNCHANGED <<reil_instruction, smt_vars>>

\* ReilRegisterOperand(name, s)
NewRegister ==
    \E name \in {"eax"}, s \in Sizes :
        /\ reil_operand' = Register(name, s)
        /\ reil_last' = ReilCall("Register", TRUE, 0, s, "", <<>>)
        /\ UNCHANGED <<reil_instruction, smt_vars>>

\* ReilEmptyOperand()
NewEmpty ==
    /\ reil_operand' = Empty
    /\ reil_last' = ReilCall("Empty", TRUE, 0, 0, "", <<>>)
    /\ UNCHANGED <<reil_instruction, smt_vars>>

\* ReilImmediateOperand.immediate (setter)
SetImmediate ==
    \E v \in ImmValues :
        /\ reil_operand.kind = "imm"
        /\ reil_operand' = [reil_operand EXCEPT !.immediate = v]
        /\ reil_last' = ReilCall("immediate", TRUE, v, reil_operand.size, "", <<>>)
        /\ UNCHANGED <<reil_instruction, smt_vars>>

\* ReilOperand.size (setter)
SetSize ==
    \E s \in Sizes :
        /\ reil_operand' = [reil_operand EXCEPT !.size = s]
        /\ reil_last' = ReilCall("size", TRUE, 0, s, "", <<>>)
        /\ UNCHANGED <<reil_instruction, smt_vars>>

\* The gen_* constructor of a mnemonic with three operands.
GenOf3(m, src1, src2, dst) ==
    CASE m = "ADD" -> gen_add(src1, src2, dst)
      [] m = "SUB" -> gen_sub(src1, src2, dst)
      [] m = "MUL" -> gen_mul(src1, src2, dst)
      [] m = "DIV" -> gen_div(src1, src2, dst)
      [] m = "MOD" -> gen_mod(src1, src2, dst)
      [] m = "BSH" -> gen_bsh(src1, src2, dst)
      [] m = "AND" -> gen_and(src1, src2, dst)
      [] m = "OR"  -> gen_or(src1, src2, dst)
      [] m = "XOR" -> gen_xor(src1, src2, dst)

\* The gen_* constructor of a mnemonic with a source and a destination.
GenOf2(m, src, dst) ==
    CASE m = "LDM"  -> gen_ldm(src, dst)
      [] m = "STM"  -> gen_stm(src, dst)
      [] m = "STR"  -> gen_str(src, dst)
      [] m = "BISZ" -> gen_bisz(src, dst)
      [] m = "JCC"  -> gen_jcc(src, dst)

\* The gen_* constructor of a mnemonic without operands.
GenOf0(m) ==
    CASE m = "UNKN"  -> gen_unkn
      [] m = "UNDEF" -> gen_undef
      [] m = "NOP"   -> gen_nop
      [] m = "RET"   -> gen_ret

\* gen_add .. gen_xor
Gen3 ==
    \E m \in {"ADD", "SUB", "MUL", "DIV", "MOD", "BSH", "AND", "OR", "XOR"},
       o \in Triples :
        /\ reil_instruction' = GenOf3(m, o[1], o[2], o[3])
        /\ reil_last' = ReilCall("gen", TRUE, 0, 0, m, o)
        /\ UNCHANGED <<reil_operand, smt_vars>>

\* gen_ldm .. gen_jcc
Gen2 ==
    \E m \in {"LDM", "STM", "STR", "BISZ", "JCC"}, o \in Pairs :
        /\ reil_instruction' = GenOf2(m, o[1], o[2])
        /\ reil_last' = ReilCall("gen", TRUE, 0, 0, m, o)
        /\ UNCHANGED <<reil_operand, smt_vars>>

\* gen_unkn, gen_undef, gen_nop, gen_ret
Gen0 ==
    \E m \in {"UNKN", "UNDEF", "NOP", "RET"} :
        /\ reil_instruction' = GenOf0(m)
        /\ reil_last' = ReilCall("gen", TRUE, 0, 0, m, <<>>)
        /\ UNCHANGED <<reil_operand, smt_vars>>

\* ReilInstructionBuilder.build called directly; when it raises no new
\* instruction is obtained.
Build ==
    \E m \in {"STR", "FOO"}, o \in Triples :
        \E ins \in {build(m, o[1], o[2], o[3])} :
            /\ reil_instruction' = IF ins = Raised THEN reil_instruction ELSE ins
            /\ reil_last' = ReilCall("build", ins # Raised, 0, 0, m, o)
            /\ UNCHANGED <<reil_operand, smt_vars>>

\* reil_instruction.mnemonic = value
SetMnemonic ==
    \E value \in {"ADD", "RET", "FOO", "NONE"} :
        \E r \in {mnemonic_setter(reil_instruction, value)} :
            /\ reil_instruction' = r.ins
            /\ reil_last' = ReilCall("mnemonic", r.ok, 0, 0, value, <<>>)
            /\ UNCHANGED <<reil_operand, smt_vars>>

\* reil_instruction.operands = value
SetOperands ==
    \E value \in OperandLists :
        \E r \in {operands_setter(reil_instruction, value)} :
            /\ reil_instruction' = r.ins
            /\ reil_last' = ReilCall("operands", r.ok, 0, 0, "", value)
            /\ UNCHANGED <<reil_operand, smt_vars>>

NextReil ==
    \/ NewImmediate \/ NewRegister \/ NewEmpty \/ SetImmediate \/ SetSize
    \/ Gen3 \/ Gen2 \/ Gen0 \/ Build \/ SetMnemonic \/ SetOperands

SpecReil == Init /\ [][NextReil]_vars

TypeOK ==
    /\ DOMAIN var_name_mappers \subseteq Names \cup {"Rlo"}
    /\ mem_instance \in Nat
    /\ steps \in 0..MaxSteps

\* ------------------------------------------------------------------------
\* Vocabulary of the properties
\* ------------------------------------------------------------------------

AllNames == Names \cup DOMAIN reg_access_mapper

IsAlias(name) == name \in DOMAIN reg_access_mapper
BaseOf(name)  == IF IsAlias(name) THEN reg_access_mapper[name][1] ELSE name
ShiftOf(name) == IF IsAlias(name) THEN reg_access_mapper[name][3] ELSE 0

Versions(vm) == [n \in AllNames |-> CurrVer(vm, n)]

Oprnd1(c) == c.instr.operands[1]
Oprnd2(c) == c.instr.operands[2]
Oprnd3(c) == c.instr.operands[3]

\* The call c was translate of mnemonic m and returned.
Translated(c, m) == c.call = "translate" /\ c.ok /\ c.instr.mnemonic = m

\* Value in e of the newest version of the variable behind a name, and of
\* the version before it.
NewVal(e, name) == e.bv[name][Len(e.bv[name])]
OldVal(e, name) == e.bv[name][Len(e.bv[name]) - 1]

\* Value that an operand denotes in e when read through the newest version
\* of its register.
OprndVal(e, o) ==
    IF o.kind = "imm" THEN o.immediate
    ELSE Bits(NewVal(e, BaseOf(o.name)), ShiftOf(o.name), o.size)

\* Value that a source operand of the call c denoted when c was made: the
\* version before the newest one if c wrote the register behind it.
SrcVal(e, c, o) ==
    IF o.kind = "imm" THEN o.immediate
    ELSE IF BaseOf(o.name) = BaseOf(Oprnd3(c).name)
    THEN Bits(OldVal(e, BaseOf(o.name)), ShiftOf(o.name), o.size)
    ELSE OprndVal(e, o)

\* Chunk offsets of the base register of an alias operand that lie outside
\* the bits the alias covers.
OutsideChunks(o) ==
    {i \in {ByteSize * k : k \in 0..(arch_regs_size[BaseOf(o.name)] \div ByteSize - 1)} :
        ~(ShiftOf(o.name) <= i /\ i < ShiftOf(o.name) + o.size)}

\* In e, the newest version of the base of alias operand o agrees with the
\* version before it on every chunk outside the alias.
Preserved(e, o) ==
    \A i \in OutsideChunks(o) :
        Bits(NewVal(e, BaseOf(o.name)), i, ByteSize)
            = Bits(OldVal(e, BaseOf(o.name)), i, ByteSize)

ByteAligned(o) ==
    /\ o.size % ByteSize = 0
    /\ ShiftOf(o.name) % ByteSize = 0
    /\ ShiftOf(o.name) + o.size <= arch_regs_size[BaseOf(o.name)]

\* ------------------------------------------------------------------------
\* Properties
\* ------------------------------------------------------------------------

\* C1: sub-register preservation for STR.  After translate(STR src -> alias)
\* returned, in every model of the returned assertions the alias bits of the
\* new base version equal the source (zero-extended or truncated to the
\* alias width) and every byte of the new base version outside the alias
\* equals the same byte of the old base version.
C1_SubRegisterPreservation ==
    (Translated(last, "STR") /\ IsAlias(Oprnd3(last).name)
        /\ ByteAligned(Oprnd3(last)))
    => /\ OprndVal(env, Oprnd3(last))
            = SrcVal(env, last, Oprnd1(last)) % 2^(Oprnd3(last).size)
       /\ Preserved(env, Oprnd3(last))

\* C1 instance: STR imm(0xEF, 8) -> Rlo on a fresh translator gave R_1 with
\* low byte 0xEF and the high byte of R_0.
C1_Witness ==
    /\ last = Call("translate", build("STR", Immediate(239, 8), Empty, Rlo),
                   TRUE, last.rv, Var("", 0))
    /\ steps = 1
    /\ var_name_mappers["R"] = 1
    /\ Bits(env.bv["R"][2], 0, 8) = 239
    /\ Bits(env.bv["R"][2], 8, 8) = Bits(env.bv["R"][1], 8, 8)

\* C2: memory byte-store round-trip.  After translate(STM src, addr)
\* returned, in every model the new memory holds byte i of the source at
\* addr + i (modulo 2^address_size) and equals the old memory everywhere
\* else.
C2_ByteStoreRoundTrip ==
    (Translated(last, "STM") /\ Oprnd1(last).size % ByteSize = 0)
    => LET new  == env.mem[Len(env.mem)]
           old  == env.mem[Len(env.mem) - 1]
           addr == OprndVal(env, Oprnd3(last))
           src  == OprndVal(env, Oprnd1(last))
           nb   == Oprnd1(last).size \div ByteSize
           At(i) == (addr + i) % 2^AddressSize
       IN  /\ mem = mkArray(mem_instance)
           /\ Len(env.mem) = mem_instance + 1
           /\ \A i \in 0..(nb - 1) : new[At(i)] = Bits(src, ByteSize * i, ByteSize)
           /\ \A a \in Addresses \ {At(i) : i \in 0..(nb - 1)} : new[a] = old[a]

\* C2 case: a two-byte store at the last address wrapped around to address 0.
C2_Witness ==
    /\ Translated(last, "STM")
    /\ Oprnd1(last) = t /\ Oprnd3(last) = p
    /\ OprndVal(env, p) = 15
    /\ env.mem[Len(env.mem)][15] = Bits(OprndVal(env, t), 0, 8)
    /\ env.mem[Len(env.mem)][0] = Bits(OprndVal(env, t), 8, 8)
    /\ env.mem[Len(env.mem)][0] # env.mem[Len(env.mem) - 1][0]

\* C3: load/store inverse.  When translate(STM s, addr) returned and the
\* very next call is translate(LDM addr -> d) with size(d) = size(s), a
\* multiple of 8, then in every model the loaded d equals the stored s.
C3_LoadStoreInverse ==
    [][(/\ Translated(last, "STM")
        /\ Translated(last', "LDM")
        /\ Oprnd1(last') = Oprnd3(last)
        /\ Oprnd3(last').size = Oprnd1(last).size
        /\ Oprnd1(last).size % ByteSize = 0)
       => OprndVal(env', Oprnd3(last')) = OprndVal(env, Oprnd1(last))]_vars

\* C3 instance: STM t, p then LDM p -> t loaded the value of t back.
C3_Witness ==
    /\ steps = 2
    /\ mem_instance = 1
    /\ returned[1].args[1] = mkArray(1)
    /\ returned[1].args[2].args[3].args[1].name = "t"
    /\ last = Call("translate", build("LDM", p, Empty, t), TRUE, last.rv,
                   Var("", 0))
    /\ var_name_mappers["t"] = 1
    /\ env.bv["t"][2] = env.bv["t"][1]
    /\ env.bv["t"][2] > 255

\* C4: state unchanged on error.  Whenever translate raises, the solver
\* context, the current version of every symbolic name, the memory version
\* and the memory handle are what they were before the call.
C4_StateUnchangedOnError ==
    [][(last'.call = "translate" /\ ~last'.ok)
       => /\ solver_asserts' = solver_asserts
          /\ Versions(var_name_mappers') = Versions(var_name_mappers)
          /\ mem_instance' = mem_instance
          /\ mem' = mem]_vars

\* C5: translate commits its result to the solver.  After any sequence of
\* calls the solver context holds exactly the concatenation of the lists
\* that translate returned, in call order.
C5_SolverHoldsReturned == solver_asserts = returned

\* C6: ADD, SUB and MUL with an alias destination return the result
\* equality followed by one preservation constraint per byte of the base
\* outside the alias, so that in every model those bytes of the new base
\* version equal the old ones.
C6_ArithReturnsPreservation ==
    (/\ \E m \in {"ADD", "SUB", "MUL"} : Translated(last, m)
     /\ IsAlias(Oprnd3(last).name)
     /\ ByteAligned(Oprnd3(last)))
    => /\ Len(last.rv) = 1 + Cardinality(OutsideChunks(Oprnd3(last)))
       /\ Preserved(env, Oprnd3(last))

\* Integer result of a three-operand mnemonic on M-bit sources a and b,
\* reduced to the N bits of the destination.
Expected(m, a, b, M, N) ==
    CASE m = "ADD" -> (a + b) % 2^N
      [] m = "SUB" -> (a - b + 2^N) % 2^N
      [] m = "MUL" -> MulMod(a % 2^N, b % 2^N, N)
      [] m = "AND" -> Bitwise("bvand", a, b, M) % 2^N
      [] m = "OR"  -> Bitwise("bvor", a, b, M) % 2^N
      [] m = "XOR" -> Bitwise("bvxor", a, b, M) % 2^N

\* C7: width coercion of ADD, SUB, MUL, AND, OR, XOR.  In every model the
\* destination holds the result on the zero-extended sources modulo 2^N
\* when N > M (carry, borrow and high product bits show), and the low N
\* bits of the M-bit result otherwise.
C7_WidthCoercion ==
    \A m \in {"ADD", "SUB", "MUL", "AND", "OR", "XOR"} :
        Translated(last, m)
        => OprndVal(env, Oprnd3(last))
             = Expected(m, SrcVal(env, last, Oprnd1(last)),
                           SrcVal(env, last, Oprnd2(last)),
                           Oprnd1(last).size, Oprnd3(last).size)

\* C7 instance: ADD imm(3, 8), imm(5, 8) -> t(16) on a fresh translator
\* binds t_1 to 8; and a widening ADD whose carry reached bit 8 was seen.
C7_Witness ==
    /\ steps = 1
    /\ last.instr = build("ADD", Immediate(3, 8), Immediate(5, 8), t)
    /\ last.ok
    /\ last.rv[1].args[1] = mkBitVec(16, Var("t", 1))
    /\ env.bv["t"][2] = 8

\* Low N bits of s1 shifted by the signed M-bit amount s2.
ExpectedShift(s1, s2, M, N) ==
    LET sh == ToSigned(s2, M)
    IN  IF sh >= 0
        THEN (IF sh >= N THEN 0 ELSE (s1 % 2^(N - sh)) * 2^sh)
        ELSE (IF -sh >= M THEN 0 ELSE (s1 \div 2^(-sh)) % 2^N)

C9_StrEncoding ==
    [][Translated(last', "STR")
       => LET o1 == Oprnd1(last')
              o3 == Oprnd3(last')
              M  == o1.size
              N  == o3.size
              s1 == translate_src_oprnd(o1, var_name_mappers).val
              dd == translate_dst_oprnd(o3, var_name_mappers)
              d  == dd.val
              move == IF M = N THEN EQ(s1, d)
                      ELSE IF M < N THEN EQ(s1, EXTRACT(d, 0, M))
                      ELSE EQ(EXTRACT(s1, 0, N), d)
              pad  == IF M < N
                      THEN <<EQ(BitVec(N - M, 0), EXTRACT(d, M, N - M))>>
                      ELSE <<>>
          IN  /\ last'.rv = <<move>> \o pad \o dd.constrs
              /\ M < N => OprndVal(env', o3) \div 2^M = 0]_vars

\* C9 case: a 4-bit source moved into an 8-bit alias returned the move, the
\* zero padding and one preservation constraint, in this order.
C9_Witness ==
    /\ Translated(last, "STR")
    /\ Oprnd1(last) = p /\ Oprnd3(last) = Rhi
    /\ Len(last.rv) = 3
    /\ last.rv[2].args[1] = BitVec(4, 0)
    /\ last.rv[3].args[2].op = "extract"
    /\ OprndVal(env, Rhi) = OprndVal(env, p)

\* Mnemonics whose translator translates operand 3 as a destination.
Writers ==
    {"ADD", "SUB", "MUL", "DIV", "MOD", "BSH", "AND", "OR", "XOR",
     "LDM", "STR", "BISZ"}

\* C10: SSA monotonicity through the translator.  No call but reset lowers
\* the version of a name; a translate that returned advances the version of the
\* name its destination resolves to by exactly one and leaves the version
\* of every other name alone; get_curr_name and get_init_name change no
\* version, get_curr_name returns the current identifier (the same when
\* called twice in a row) and get_init_name the version-0 identifier.
C10_SsaMonotonicity ==
    [][/\ last'.call # "reset"
          => \A n \in AllNames :
               CurrVer(var_name_mappers', n) >= CurrVer(var_name_mappers, n)
       /\ (last'.call = "translate" /\ last'.ok
              /\ last'.instr.mnemonic \in Writers)
          => CurrVer(var_name_mappers', BaseOf(Oprnd3(last').name))
               = CurrVer(var_name_mappers, BaseOf(Oprnd3(last').name)) + 1
       /\ (last'.call = "translate" /\ last'.ok)
          => \A n \in AllNames :
               (last'.instr.mnemonic \in Writers
                    /\ n = BaseOf(Oprnd3(last').name))
               \/ CurrVer(var_name_mappers', n) = CurrVer(var_name_mappers, n)
       /\ last'.call \in {"get_curr_name", "get_init_name"}
          => Versions(var_name_mappers') = Versions(var_name_mappers)
       /\ last'.call = "get_curr_name"
          => last'.result.ver = CurrVer(var_name_mappers, last'.result.name)
       /\ (last'.call = "get_curr_name" /\ last.call = "get_curr_name"
              /\ last'.result.name = last.result.name)
          => last'.result = last.result
       /\ last'.call = "get_init_name" => last'.result.ver = 0]_vars

\* C10 case: two writes through different aliases of R brought R to
\* version 2, and get_curr_name showed a version above 0.
C10_Witness ==
    \/ /\ var_name_mappers = [n \in {"R", "x"} |-> IF n = "R" THEN 2 ELSE 0]
       /\ Translated(last, "STR") /\ Oprnd3(last) = Rhi
    \/ /\ last.call = "get_curr_name" /\ last.result = Var("R", 1)

\* C11: reset restores the initial state after any history.  Right after
\* reset the solver holds nothing, the memory version is 0, get_memory and
\* get_memory_init denote MEM_0, the current and the initial identifier of
\* every name are its version 0, and every instruction translates to what
\* a freshly constructed translator makes of it.
C11_ResetRestoresInitialState ==
    last.call = "reset"
    => /\ solver_asserts = <<>>
       /\ mem_instance = 0
       /\ Var(mem.name, mem.n) = Var("MEM", 0)
       /\ Var(mem_init.name, mem_init.n) = Var("MEM", 0)
       /\ \A n \in AllNames :
             /\ get_current(register_name(var_name_mappers, n), n) = Var(n, 0)
             /\ get_init(n) = Var(n, 0)
       /\ \A instr \in Instrs :
             translate(instr, StateOf(Now)) = translate(instr, StateOf(Fresh))

\* C11 case: a reset of a translator whose memory or whose register R had
\* reached version 1.
C11_Witness ==
    /\ last.call = "reset"
    /\ \/ before.mem_instance = 1 /\ before.mem = mkArray(1)
       \/ CurrVer(before.vm, "R") = 1
    /\ mem_instance = 0
    /\ CurrVer(var_name_mappers, "R") = 0

\* The array a handle denotes: its name and version.
Handle(m) == Var(m.name, m.n)

\* C12: memory versioning.  get_memory_init always denotes MEM_0, whose
\* contents no call changes; get_memory denotes MEM_k for the memory
\* version k; k is 0 after reset, a translate of STM that returned advances
\* it by exactly one whatever the width stored, and every other call
\* (LDM included, and an STM that raised) leaves k and the handle alone.
C12_MemoryVersioning ==
    [][/\ Handle(mem_init') = Var("MEM", 0)
       /\ env'.mem[1] = env.mem[1]
       /\ Handle(mem') = Var("MEM", mem_instance')
       /\ last'.call = "reset" => mem_instance' = 0
       /\ Translated(last', "STM") => mem_instance' = mem_instance + 1
       /\ (last'.call # "reset" /\ ~Translated(last', "STM"))
          => mem_instance' = mem_instance /\ mem' = mem]_vars

\* C12 case: a one-byte store then a two-byte store brought the memory to
\* MEM_2, the second changing a byte, with MEM_0 still the initial handle.
C12_Witness ==
    /\ Translated(last, "STM") /\ Oprnd1(last) = t
    /\ Len(returned) = 2
    /\ <<returned[1]>> = translate(build("STM", x, Empty, p), StateOf(Fresh)).rv
    /\ mem_instance = 2
    /\ Handle(mem) = Var("MEM", 2)
    /\ Handle(mem_init) = Var("MEM", 0)
    /\ env.mem[3] # env.mem[1]

C14_NoOpSilence ==
    (last.call = "translate"
        /\ last.instr.mnemonic \in {"NOP", "UNDEF", "RET", "JCC"})
    => /\ last.ok
       /\ last.rv = <<>>
       /\ var_name_mappers = before.vm
       /\ mem_instance = before.mem_instance
       /\ mem = before.mem

\* C14 case: after a write to x, a JCC whose target is the register p, or
\* an UNDEF of Rlo, returned nothing and left the counters alone.
C14_Witness ==
    /\ \/ Translated(last, "JCC") /\ Oprnd3(last) = p
       \/ Translated(last, "UNDEF") /\ Oprnd3(last) = Rlo
    /\ CurrVer(before.vm, "x") = 1
    /\ Versions(var_name_mappers) = Versions(before.vm)
    /\ last.rv = <<>>

\* Operand o may stand at a source position: a register whose alias, if it
\* is one, has its base in the register-size map, or an immediate; either
\* of positive size.
IsSource(o) ==
    /\ o.kind \in {"reg", "imm"}
    /\ o.size > 0
    /\ (o.kind = "reg" /\ IsAlias(o.name))
       => BaseOf(o.name) \in DOMAIN arch_regs_size

\* Operand o may stand at a destination position: a register.
IsDestination(o) == IsSource(o) /\ o.kind = "reg"

\* The instruction respects the arity, the operand variants and the width
\* discipline of its mnemonic.
WellFormed(instr) ==
    LET m  == instr.mnemonic
        o1 == instr.operands[1]
        o2 == instr.operands[2]
        o3 == instr.operands[3]
    IN  CASE m \in {"ADD", "SUB", "MUL", "BSH", "AND", "OR", "XOR"} ->
                /\ IsSource(o1) /\ IsSource(o2) /\ IsDestination(o3)
                /\ o1.size = o2.size
          [] m \in {"DIV", "MOD"} ->
                /\ IsSource(o1) /\ IsSource(o2) /\ IsDestination(o3)
                /\ o1.size = o2.size /\ o2.size = o3.size
          [] m = "LDM" ->
                /\ IsSource(o1) /\ o2 = Empty /\ IsDestination(o3)
                /\ o1.size = AddressSize
          [] m = "STM" ->
                /\ IsSource(o1) /\ o2 = Empty /\ IsSource(o3)
                /\ o3.size = AddressSize
          [] m \in {"STR", "BISZ"} ->
                IsSource(o1) /\ o2 = Empty /\ IsDestination(o3)
          [] m = "JCC" -> IsSource(o1) /\ o2 = Empty /\ IsSource(o3)
          [] m \in {"UNDEF", "NOP", "RET", "UNKN"} ->
                o1 = Empty /\ o2 = Empty /\ o3 = Empty
          [] OTHER -> FALSE

\* C15: UNKN is the only unencodable mnemonic.  Every translate of UNKN
\* raises, and every translate of an instruction of another mnemonic that
\* respects the arity, operand variants and widths of its mnemonic returns.
C15_OnlyUnknUnencodable ==
    last.call = "translate"
    => /\ last.instr.mnemonic = "UNKN" => ~last.ok
       /\ (last.instr.mnemonic # "UNKN" /\ WellFormed(last.instr)) => last.ok

\* C15 case: a translate of UNKN raised after a translate of a well-formed
\* instruction had returned assertions.
C15_Witness ==
    /\ last.call = "translate" /\ last.instr.mnemonic = "UNKN" /\ ~last.ok
    /\ returned # <<>>
    /\ steps = 2

\* C16: immediate normalization.  The value stored by constructing
\* Immediate(v, s) is v mod 2^s: it lies in [0, 2^s), whatever the sign and
\* the magnitude of v.
C16_ImmediateNormalization ==
    (reil_last.call = "Immediate" /\ reil_last.size # 0)
    => /\ reil_operand.immediate = reil_last.value % 2^reil_last.size
       /\ reil_operand.immediate \in 0..(2^reil_last.size - 1)

\* C17: operand width invariant.  Every Immediate and every Register
\* operand, as constructed and as left by the setters, has a positive
\* bit-width; the Empty operand has none.
C17_OperandWidth ==
    /\ reil_operand.kind \in {"imm", "reg"} => reil_operand.size > 0
    /\ reil_operand.kind = "empty" => reil_operand.size = 0

\* C18: builder arity.  Every gen_* constructor returns an instruction of
\* three operand slots whose mnemonic is the one of the constructor, in
\* the closed set: the slots are (src1, src2, dst) as given for the
\* mnemonics of three operands, (src, Empty, dst) for LDM, STM, STR, BISZ
\* and JCC, and three Empty for UNKN, UNDEF, NOP and RET.  build and the
\* mnemonic setter reject a mnemonic outside the set, the operands setter
\* rejects a list whose length is not 3, and a rejected call leaves the
\* instruction as it was; an accepted setter stores its value.
C18_BuilderArity ==
    [][/\ Len(reil_instruction'.operands) = 3
       /\ reil_last'.call = "gen"
          => /\ reil_instruction'.mnemonic = reil_last'.mnemonic
             /\ reil_instruction'.mnemonic \in REIL_MNEMONICS
             /\ reil_last'.mnemonic \in {"ADD", "SUB", "MUL", "DIV", "MOD",
                                         "BSH", "AND", "OR", "XOR"}
                => reil_instruction'.operands = reil_last'.oprnds
             /\ reil_last'.mnemonic \in {"LDM", "STM", "STR", "BISZ", "JCC"}
                => reil_instruction'.operands
                     = <<reil_last'.oprnds[1], Empty, reil_last'.oprnds[2]>>
             /\ reil_last'.mnemonic \in {"UNKN", "UNDEF", "NOP", "RET"}
                => reil_instruction'.operands = <<Empty, Empty, Empty>>
       /\ reil_last'.call \in {"build", "mnemonic"}
          => /\ reil_last'.ok = (reil_last'.mnemonic \in REIL_MNEMONICS)
             /\ ~reil_last'.ok => reil_instruction' = reil_instruction
             /\ reil_last'.ok
                => reil_instruction'.mnemonic = reil_last'.mnemonic
       /\ reil_last'.call = "operands"
          => /\ reil_last'.ok = (Len(reil_last'.oprnds) = 3)
             /\ ~reil_last'.ok => reil_instruction' = reil_instruction
             /\ reil_last'.ok
                => reil_instruction'
                     = [reil_instruction EXCEPT !.operands = reil_last'.oprnds]
      ]_vars

\* C18 case: gen_stm built an instruction, and the mnemonic setter then
\* rejected a mnemonic outside the set and left that instruction in place.
C18_Witness ==
    /\ reil_last.call = "mnemonic" /\ reil_last.mnemonic = "FOO"
    /\ ~reil_last.ok
    /\ reil_instruction.mnemonic = "STM"
    /\ reil_instruction.operands
         = <<Immediate(1, 8), Empty, Register("t0", 8)>>

\* The last call was translate(divmod imm(20,16), imm(3,16) -> q) on a
\* translator just constructed or reset, and it returned.
DivModOfFresh(m) ==
    /\ Translated(last, m)
    /\ last.instr = build(m, Immediate(20, 16), Immediate(3, 16), qreg)
    /\ StateOf(before) = StateOf(Fresh)

C20_BshWiderDestination ==
    (/\ last.call = "translate" /\ last.instr.mnemonic = "BSH"
     /\ WellFormed(last.instr)
     /\ Oprnd3(last).size > Oprnd1(last).size)
    => /\ last.ok
       /\ \A i \in 1..Len(last.rv) : WellSorted(last.rv[i])
       /\ OprndVal(env, Oprnd3(last))
            = ExpectedShift(SrcVal(env, last, Oprnd1(last)),
                            SrcVal(env, last, Oprnd2(last)),
                            Oprnd1(last).size, Oprnd1(last).size)

\* The versions of the variable `name` that the term mentions.
RECURSIVE VersionsIn(_, _)
VersionsIn(term, name) ==
    IF term.op = "var"
    THEN (IF term.name = name THEN {term.n} ELSE {})
    ELSE UNION {VersionsIn(term.args[i], name) : i \in 1..Len(term.args)}

\* The side of the first assertion returned by the call c that is built
\* from the sources, and the side that is the destination term: STR and LDM
\* put the source on the left, the other writers on the right.
SrcSide(c) ==
    IF c.instr.mnemonic \in {"STR", "LDM"}
    THEN c.rv[1].args[1] ELSE c.rv[1].args[2]
DstSide(c) ==
    IF c.instr.mnemonic \in {"STR", "LDM"}
    THEN c.rv[1].args[2] ELSE c.rv[1].args[1]

\* The register operands among the sources of the call c.
SrcRegs(c) == {o \in {Oprnd1(c), Oprnd2(c)} : o.kind = "reg"}

\* C21: sources are read before the destination is versioned.  In every
\* translate that returned and has a destination, the source side mentions
\* of every name only the version current before the call (and does
\* mention that version of the base of every register source), and the
\* destination term mentions only the version that the call created, one
\* above the version before, also when source and destination share a
\* register or a base.
C21_SourcesBeforeDestination ==
    (last.call = "translate" /\ last.ok /\ last.instr.mnemonic \in Writers)
    => /\ \A n \in Names :
             VersionsIn(SrcSide(last), n) \subseteq {CurrVer(before.vm, n)}
       /\ \A o \in SrcRegs(last) :
             CurrVer(before.vm, BaseOf(o.name))
                 \in VersionsIn(SrcSide(last), BaseOf(o.name))
       /\ \A n \in Names :
             VersionsIn(DstSide(last), n)
                 = IF n = BaseOf(Oprnd3(last).name)
                   THEN {CurrVer(before.vm, n) + 1}
                   ELSE {}

\* C21 case: with R at version 1, ADD Rlo, imm -> Rhi equated a slice of
\* R_2 with a sum over R_1; or with x at version 1, SUB x, y -> x equated
\* x_2 with a difference over x_1.
C21_Witness ==
    /\ last.ok
    /\ \/ /\ last.instr = build("ADD", Rlo, Immediate(1, 8), Rhi)
          /\ CurrVer(before.vm, "R") = 1
          /\ VersionsIn(SrcSide(last), "R") = {1}
          /\ VersionsIn(DstSide(last), "R") = {2}
       \/ /\ last.instr = build("SUB", x, y, x)
          /\ CurrVer(before.vm, "x") = 1
          /\ VersionsIn(SrcSide(last), "x") = {1}
          /\ VersionsIn(DstSide(last), "x") = {2}

\* The term sub occurs in the term.
RECURSIVE Occurs(_, _)
Occurs(sub, term) ==
    \/ sub = term
    \/ \E i \in 1..Len(term.args) : Occurs(sub, term.args[i])

\* A read of the register operand o when the name counters are vm: the
\* EXTRACT at the alias's shift of the current version of its base, or the
\* current version of the register itself.
ReadOf(o, vm) ==
    IF IsAlias(o.name)
    THEN EXTRACT(mkBitVec(arch_regs_size[BaseOf(o.name)],
                          Var(BaseOf(o.name), CurrVer(vm, BaseOf(o.name)))),
                 ShiftOf(o.name), o.size)
    ELSE mkBitVec(o.size, Var(o.name, CurrVer(vm, o.name)))

\* C22: aliases share the version counter of their base.  A translate
\* neither registers nor advances the name of an alias; a translate that
\* returned and wrote through an alias advanced the version of the base by
\* one and no other; and a register source, the base or any alias of it,
\* is read as the EXTRACT of the version of the base that was the latest
\* before the call, whichever alias wrote it.
C22_AliasesShareBaseVersion ==
    last.call = "translate"
    => /\ \A a \in DOMAIN reg_access_mapper :
             /\ (a \in DOMAIN var_name_mappers) = (a \in DOMAIN before.vm)
             /\ CurrVer(var_name_mappers, a) = CurrVer(before.vm, a)
       /\ (last.ok /\ last.instr.mnemonic \in Writers
              /\ IsAlias(Oprnd3(last).name))
          => \A n \in Names :
               CurrVer(var_name_mappers, n)
                 = CurrVer(before.vm, n)
                     + (IF n = BaseOf(Oprnd3(last).name) THEN 1 ELSE 0)
       /\ (last.ok /\ last.instr.mnemonic \in Writers \cup {"STM"})
          => \A o \in SrcRegs(last) :
               Occurs(ReadOf(o, before.vm), SrcSide(last))

\* C22 case: after a write that brought R to version 1, ADD Rlo, imm -> Rhi
\* read Rlo as a slice of R_1 and wrote Rhi as R_2, and no alias name has a
\* counter.
C22_Witness ==
    /\ last.ok
    /\ last.instr = build("ADD", Rlo, Immediate(1, 8), Rhi)
    /\ CurrVer(before.vm, "R") = 1
    /\ Occurs(EXTRACT(mkBitVec(16, Var("R", 1)), 0, 8), SrcSide(last))
    /\ DOMAIN var_name_mappers = {"R"}
    /\ var_name_mappers["R"] = 2

\* C23: convert_to_bitvec agrees with source translation.  For a Register
\* or an Immediate operand it returns the term that translating the
\* operand as a source would have returned in the state before the call,
\* and it changes no version and asserts nothing.
C23_ConvertAgreesWithSource ==
    last.call = "convert_to_bitvec"
    => /\ last.ok
       /\ last.rv = <<translate_src_oprnd(Oprnd1(last), before.vm).val>>
       /\ Versions(var_name_mappers) = Versions(before.vm)
       /\ solver_asserts = before.solver_asserts

\* The assertion c equates a chunk of the base version new with the same
\* chunk of the base version old, and bit k lies in that chunk.
PreservesBit(c, new, old, k) ==
    /\ c.op = "eq"
    /\ c.args[1].op = "extract" /\ c.args[1].args[1] = new
    /\ c.args[2].op = "extract" /\ c.args[2].args[1] = old
    /\ c.args[1].n = c.args[2].n /\ c.args[1].size = c.args[2].size
    /\ c.args[1].n <= k /\ k < c.args[1].n + c.args[1].size

\* Number of assertions returned by the call c that preserve bit k of the
\* base register of its destination alias.
PreservedTimes(c, k) ==
    Cardinality({j \in 1..Len(c.rv) :
        PreservesBit(c.rv[j],
            mkBitVec(arch_regs_size[BaseOf(Oprnd3(c).name)],
                     Var(BaseOf(Oprnd3(c).name),
                         CurrVer(before.vm, BaseOf(Oprnd3(c).name)) + 1)),
            mkBitVec(arch_regs_size[BaseOf(Oprnd3(c).name)],
                     Var(BaseOf(Oprnd3(c).name),
                         CurrVer(before.vm, BaseOf(Oprnd3(c).name)))),
            k)})

\* C24: preservation constraints and the written range partition the base
\* register.  After STR, the translation that returns the preservation
\* constraints of its destination, wrote through an alias of width w at
\* shift s, aligned to bytes or not, every bit of the new base version
\* outside [s, s+w) is covered by exactly one returned preservation
\* constraint equating it with the same bit of the old base version, and
\* no bit inside [s, s+w) is covered by any.
C24_PreservationPartitionsBase ==
    (Translated(last, "STR")
     /\ IsAlias(Oprnd3(last).name)
     /\ BaseOf(Oprnd3(last).name) \in DOMAIN arch_regs_size)
    => \A k \in 0..(arch_regs_size[BaseOf(Oprnd3(last).name)] - 1) :
          PreservedTimes(last, k)
            = IF ShiftOf(Oprnd3(last).name) <= k
                 /\ k < ShiftOf(Oprnd3(last).name) + Oprnd3(last).size
              THEN 0 ELSE 1

====
